---- MODULE Spec2Model ----
(***************************************************************************)
(* The modular multi-agent orchestrator of demo_agent: the workflow graph  *)
(* built by get_modular_multi_agent (intent classifier, two specialist     *)
(* sub-graphs, synthesis, two translations, multilingual combination) and  *)
(* the public surface of ModularMultiAgentOrchestrator.                    *)
(*                                                                         *)
(* Text is a sequence of tokens: "" is <<>>, an f-string is the            *)
(* concatenation of its literal parts and its interpolated values.         *)
(***************************************************************************)
EXTENDS Integers, Sequences, FiniteSets, TLC

\* Rounds of tool calls one specialist invocation may make in the model.
MaxToolRounds == 1

\* process_query calls made on one orchestrator in the model.
MaxQueries == 2

\* A key that the State dict does not hold (state.get falls to its default).
Absent == "<absent>"
\* Python's None.
PyNone == "<None>"

Range(s) == {s[i] : i \in DOMAIN s}

MaxOf(S) == CHOOSE x \in S : \A y \in S : y <= x

-----------------------------------------------------------------------------
(* Messages *)

\* A LangChain message; id 0 is a message that has no id yet.
Msg(t, c, tc) == [type |-> t, content |-> c, tool_calls |-> tc, id |-> 0]

HumanMessage(c) == Msg("human", c, 0)
AIMessage(c, tc) == Msg("ai", c, tc)
SystemMessage(c) == Msg("system", c, 0)
ToolMessage(c) == Msg("tool", c, 0)

\* hasattr(message, attr): content and response_metadata are fields of every
\* message class, tool_calls is a field of AIMessage alone.
HasAttr(m, attr) ==
    CASE attr = "content" -> TRUE
      [] attr = "response_metadata" -> TRUE
      [] attr = "tool_calls" -> m.type = "ai"
      [] OTHER -> FALSE

\* bool(text) of a str.
Truthy(c) == c # <<>>

\* The State channels; messages is reduced by add_messages, the others keep
\* the last value written.
ScalarKeys == {"next_agent", "english_response", "spanish_response", "hindi_response"}

\* The marker of a key the dict does not hold: next_agent is a str, the
\* response fields are text.
AbsentOf(key) == IF key = "next_agent" THEN Absent ELSE <<Absent>>

EmptyState ==
    [messages |-> <<>>, next_agent |-> AbsentOf("next_agent"),
     english_response |-> AbsentOf("english_response"),
     spanish_response |-> AbsentOf("spanish_response"),
     hindi_response |-> AbsentOf("hindi_response")]

\* A node's return value: the keys it does not return are Absent, and an
\* update without messages adds the empty list.
NoUpdate == EmptyState

\* state.get(key, default)
StateGet(st, key, default) == IF st[key] = AbsentOf(key) THEN default ELSE st[key]

IdsOf(msgs) == {msgs[i].id : i \in DOMAIN msgs}

RECURSIVE AssignIds(_, _)
\* Messages without an id get a fresh one.
AssignIds(msgs, next) ==
    IF msgs = <<>> THEN <<>>
    ELSE IF Head(msgs).id = 0
         THEN <<[Head(msgs) EXCEPT !.id = next]>> \o AssignIds(Tail(msgs), next + 1)
         ELSE <<Head(msgs)>> \o AssignIds(Tail(msgs), next)

FreshAfter(msgs, next) == next + Cardinality({i \in DOMAIN msgs : msgs[i].id = 0})

RECURSIVE MergeById(_, _)
\* A message whose id is already in the list replaces that entry in place,
\* any other message is appended.
MergeById(left, right) ==
    IF right = <<>> THEN left
    ELSE LET m == Head(right)
             at == {i \in DOMAIN left : left[i].id = m.id}
         IN  IF at # {}
             THEN MergeById([left EXCEPT ![CHOOSE i \in at : TRUE] = m], Tail(right))
             ELSE MergeById(Append(left, m), Tail(right))

add_messages(left, right, next) == MergeById(left, AssignIds(right, next))

-----------------------------------------------------------------------------
(* The outcomes of the calls to the LLM capability *)

ValidAgents == {"supply_chain_agent", "financial_agent", "both_agents"}

\* What the classifier LLM can answer: text that is not JSON, JSON that is not
\* an object, or an object whose primary_agent is missing, null, one of the
\* three routes or some other string.
ClassifierContents ==
    {[kind |-> "not_json", primary_agent |-> Absent],
     [kind |-> "json_array", primary_agent |-> Absent]}
    \cup {[kind |-> "json_object", primary_agent |-> p] :
            p \in ValidAgents \cup {Absent, PyNone, "hr_agent"}}

\* An LLM call either raises (ok = FALSE) or returns a response.
ClassifierOutcomes ==
    {[ok |-> FALSE, content |-> [kind |-> "not_json", primary_agent |-> Absent]]}
    \cup {[ok |-> TRUE, content |-> c] : c \in ClassifierContents}

TextOutcomes(texts) ==
    {[ok |-> FALSE, content |-> <<>>]} \cup {[ok |-> TRUE, content |-> c] : c \in texts}

\* The user's query texts.
Queries == {<<>>, <<"query">>, <<"query", "supply chain">>}

\* A specialist's final answers, and the content of a response that carries
\* tool calls.
FinalAnswers(agent) == {<<>>, <<agent, "report">>, <<agent, "report", "supply chain">>}
ToolCallContent == <<>>
ToolResult == <<"tool result">>
SynthesisAnswers == {<<>>, <<"synthesis">>}

\* The translator's answer to a prompt that embeds the text src.
Translate(lang, src) == <<lang>> \o src

-----------------------------------------------------------------------------
(* The orchestrator's nodes.  Each returns [raised, llm, update]: whether it
   raised, how many LLM calls it made, and the dict it returned. *)

Returned(u, n) == [raised |-> FALSE, llm |-> n, update |-> u]
Raised(n) == [raised |-> TRUE, llm |-> n, update |-> NoUpdate]

\* The content of the last message with non-empty content, "" without one.
LatestContent(msgs) ==
    LET with == {i \in DOMAIN msgs : HasAttr(msgs[i], "content") /\ Truthy(msgs[i].content)}
    IN  IF with = {} THEN <<>> ELSE msgs[MaxOf(with)].content

\* json.loads and classification.get("primary_agent", "supply_chain_agent")
\* inside the bare try/except.
ParsePrimaryAgent(content) ==
    IF content.kind # "json_object" THEN "supply_chain_agent"
    ELSE IF content.primary_agent = Absent THEN "supply_chain_agent"
    ELSE content.primary_agent


\* intent_classifier without its early return for a query without content.
intent_classifier_always_llm(st, outcome) ==
    IF ~outcome.ok THEN Raised(1)
    ELSE Returned([NoUpdate EXCEPT !.next_agent = ParsePrimaryAgent(outcome.content)], 1)

intent_classifier(st, outcome) ==
    LET user_query == LatestContent(st.messages)
    IN  IF ~Truthy(user_query)
        THEN Returned([NoUpdate EXCEPT !.next_agent = "supply_chain_agent"], 0)
        ELSE IF ~outcome.ok THEN Raised(1)
        ELSE Returned([NoUpdate EXCEPT !.next_agent = ParsePrimaryAgent(outcome.content)], 1)


\* route_to_agents that starts every route with the supply-chain specialist.
route_to_agents_supply_chain_first(st) == "supply_chain_agent"

route_to_agents(st) ==
    LET next_agent == StateGet(st, "next_agent", "supply_chain_agent")
    IN  IF next_agent = "both_agents" THEN "supply_chain_agent" ELSE next_agent

\* The tokens whose lower case contains "supply chain".
SupplyChainTokens ==
    {"supply chain", "Context from Supply Chain Analysis:",
     "## Supply Chain Analysis - Multilingual Response"}

MentionsSupplyChain(c) == Range(c) \cap SupplyChainTokens # {}

ContextText(supply_chain_result) ==
    <<"Context from Supply Chain Analysis:">> \o supply_chain_result
        \o <<"Please provide financial analysis that complements the supply chain analysis above.">>

\* financial_with_context that hands the sub-graph a state routed to the
\* financial specialist alone.
financial_with_context_retargets(st) ==
    LET hits == {i \in DOMAIN st.messages :
                    HasAttr(st.messages[i], "content")
                    /\ MentionsSupplyChain(st.messages[i].content)}
    IN  IF hits # {} /\ StateGet(st, "next_agent", PyNone) = "both_agents"
        THEN [st EXCEPT !.messages =
                 st.messages \o <<SystemMessage(ContextText(st.messages[MaxOf(hits)].content))>>,
                        !.next_agent = "financial_agent"]
        ELSE st

\* financial_with_context that adds the context on every route.
financial_with_context_any_route(st) ==
    LET hits == {i \in DOMAIN st.messages :
                    HasAttr(st.messages[i], "content")
                    /\ MentionsSupplyChain(st.messages[i].content)}
    IN  IF hits # {}
        THEN [st EXCEPT !.messages =
                 st.messages \o <<SystemMessage(ContextText(st.messages[MaxOf(hits)].content))>>]
        ELSE st

\* The state financial_with_context hands to the financial sub-graph.
financial_with_context(st) ==
    LET hits == {i \in DOMAIN st.messages :
                    HasAttr(st.messages[i], "content")
                    /\ MentionsSupplyChain(st.messages[i].content)}
    IN  IF hits # {} /\ StateGet(st, "next_agent", PyNone) = "both_agents"
        THEN [st EXCEPT !.messages =
                 st.messages \o <<SystemMessage(ContextText(st.messages[MaxOf(hits)].content))>>]
        ELSE st

\* The state supply_chain_with_callbacks hands to the supply-chain sub-graph.
supply_chain_with_callbacks(st) == st

\* The analyses of a synthesize_followup that takes the one message there is
\* when there are not two.
SynthesisInputs_takes_available(st) ==
    LET ai == SelectSeq(st.messages,
                  LAMBDA m : HasAttr(m, "content") /\ HasAttr(m, "response_metadata"))
    IN  IF Len(ai) >= 2
        THEN [supply_chain_result |-> ai[Len(ai) - 1].content,
              financial_result |-> ai[Len(ai)].content]
        ELSE IF Len(ai) = 1
        THEN [supply_chain_result |-> <<>>, financial_result |-> ai[1].content]
        ELSE [supply_chain_result |-> <<>>, financial_result |-> <<>>]

\* The two analyses synthesize_followup puts into its prompt.
SynthesisInputs(st) ==
    LET ai == SelectSeq(st.messages,
                  LAMBDA m : HasAttr(m, "content") /\ HasAttr(m, "response_metadata"))
    IN  IF Len(ai) >= 2
        THEN [supply_chain_result |-> ai[Len(ai) - 1].content,
              financial_result |-> ai[Len(ai)].content]
        ELSE [supply_chain_result |-> <<>>, financial_result |-> <<>>]

\* synthesize_followup without its early return for a single specialist.
synthesize_followup_always(st, outcome) ==
    IF ~outcome.ok THEN Raised(1)
    ELSE Returned([NoUpdate EXCEPT !.messages = <<AIMessage(outcome.content, 0)>>], 1)

\* synthesize_followup that also stores its answer as english_response.
synthesize_followup_stores_english(st, outcome) ==
    IF StateGet(st, "next_agent", PyNone) # "both_agents" THEN Returned(NoUpdate, 0)
    ELSE IF ~outcome.ok THEN Raised(1)
    ELSE Returned([NoUpdate EXCEPT !.messages = <<AIMessage(outcome.content, 0)>>,
                                   !.english_response = outcome.content], 1)

synthesize_followup(st, outcome) ==
    IF StateGet(st, "next_agent", PyNone) # "both_agents" THEN Returned(NoUpdate, 0)
    ELSE IF ~outcome.ok THEN Raised(1)
    ELSE Returned([NoUpdate EXCEPT !.messages = <<AIMessage(outcome.content, 0)>>], 1)

\* A source text that prefers the latest message to english_response.
EnglishOf_latest_message_first(st) ==
    LET english_response == StateGet(st, "english_response", <<>>)
        with == {i \in DOMAIN st.messages :
                    HasAttr(st.messages[i], "content")
                    /\ HasAttr(st.messages[i], "response_metadata")}
    IN  IF with # {} /\ Truthy(st.messages[MaxOf(with)].content)
        THEN st.messages[MaxOf(with)].content
        ELSE english_response

\* english_response, or the content of the latest message that has content and
\* response_metadata.
EnglishOf(st) ==
    LET english_response == StateGet(st, "english_response", <<>>)
        with == {i \in DOMAIN st.messages :
                    HasAttr(st.messages[i], "content")
                    /\ HasAttr(st.messages[i], "response_metadata")}
    IN  IF Truthy(english_response) THEN english_response
        ELSE IF with = {} THEN english_response
        ELSE st.messages[MaxOf(with)].content

Sentinel == <<"Error: No response to translate">>

spanish_translation(st, ok) ==
    LET english_response == EnglishOf(st)
    IN  IF ~Truthy(english_response)
        THEN Returned([NoUpdate EXCEPT !.spanish_response = Sentinel], 0)
        ELSE IF ~ok THEN Raised(1)
        ELSE Returned([NoUpdate EXCEPT !.spanish_response = Translate("es", english_response)], 1)


\* hindi_translation that stores the English text it translated as well.
hindi_translation_stores_english(st, ok) ==
    LET english_response == EnglishOf(st)
    IN  IF ~Truthy(english_response)
        THEN Returned([NoUpdate EXCEPT !.hindi_response = Sentinel], 0)
        ELSE IF ~ok THEN Raised(1)
        ELSE Returned([NoUpdate EXCEPT !.hindi_response = Translate("hi", english_response),
                                       !.english_response = Translate("hi", english_response)], 1)

hindi_translation(st, ok) ==
    LET english_response == EnglishOf(st)
    IN  IF ~Truthy(english_response)
        THEN Returned([NoUpdate EXCEPT !.hindi_response = Sentinel], 0)
        ELSE IF ~ok THEN Raised(1)
        ELSE Returned([NoUpdate EXCEPT !.hindi_response = Translate("hi", english_response)], 1)

Title == "## Supply Chain Analysis - Multilingual Response"
EnglishHeader == "### English Response:"
SpanishHeader == "### Respuesta en Espanol:"
HindiHeader == "### Hindi Response:"
Divider == "---"
Footer == "*This analysis has been provided in three languages*"

\* The f-string of multilingual_combination.
MultilingualResponse(english_response, spanish_response, hindi_response) ==
    <<Title, EnglishHeader>> \o english_response
        \o <<Divider, SpanishHeader>> \o spanish_response
        \o <<Divider, HindiHeader>> \o hindi_response
        \o <<Divider, Footer>>


\* multilingual_combination that leaves a section out when its text is the
\* sentinel.
multilingual_combination_drops_sentinel(st) ==
    LET english_response == EnglishOf(st)
        spanish_response == StateGet(st, "spanish_response", <<>>)
        hindi_response == StateGet(st, "hindi_response", <<>>)
    IN  Returned([NoUpdate EXCEPT !.messages =
            <<AIMessage(<<Title, EnglishHeader>> \o english_response
                        \o (IF spanish_response = Sentinel THEN <<>>
                            ELSE <<Divider, SpanishHeader>> \o spanish_response)
                        \o (IF hindi_response = Sentinel THEN <<>>
                            ELSE <<Divider, HindiHeader>> \o hindi_response)
                        \o <<Divider, Footer>>, 0)>>], 0)

\* multilingual_combination that takes the first message for the English text.
multilingual_combination_first_message(st) ==
    LET english_response == IF st.messages = <<>> THEN <<>> ELSE st.messages[1].content
        spanish_response == StateGet(st, "spanish_response", <<>>)
        hindi_response == StateGet(st, "hindi_response", <<>>)
    IN  Returned([NoUpdate EXCEPT !.messages =
            <<AIMessage(MultilingualResponse(english_response, spanish_response,
                                             hindi_response), 0)>>], 0)

multilingual_combination(st) ==
    LET english_response == EnglishOf(st)
        spanish_response == StateGet(st, "spanish_response", <<>>)
        hindi_response == StateGet(st, "hindi_response", <<>>)
    IN  Returned([NoUpdate EXCEPT !.messages =
            <<AIMessage(MultilingualResponse(english_response, spanish_response,
                                             hindi_response), 0)>>], 0)

-----------------------------------------------------------------------------
(* The mock tools: each looks its keys up in a table written in its body and
   answers with a text.  A text is the sequence of the pieces its f-string
   joins. *)

ComplianceSuppliers == {"SUP001", "SUP002"}
FinancialSuppliers == {"SUP001", "SUP002"}
RiskRegions == {"southeast asia", "eastern europe", "north america"}
RiskMaterials == {"semiconductors", "rare earth metals", "aluminum"}
RiskSuppliers == {"SUP001", "SUP002"}

SupplierName(supplier_id) ==
    IF supplier_id = "SUP001" THEN "Acme Manufacturing" ELSE "Global Parts Inc."

\* The keys the tools are called with; an optional argument left out is None.
SupplierIds == {"", "SUP001", "SUP002", "sup001", "SUP999"}
RegionArgs == {PyNone, "", "north america", "Southeast Asia", "Atlantis"}
MaterialArgs == {PyNone, "", "aluminum", "Semiconductors", "Unobtainium"}
SupplierArgs == SupplierIds \cup {PyNone}

\* str.lower() on those keys.
Lower(s) ==
    CASE s = "Southeast Asia" -> "southeast asia"
      [] s = "Atlantis" -> "atlantis"
      [] s = "Semiconductors" -> "semiconductors"
      [] s = "Unobtainium" -> "unobtainium"
      [] OTHER -> s

\* Truth value of an optional string argument.
Given(arg) == arg # PyNone /\ arg # ""

ToolReturned(text) == [raised |-> FALSE, text |-> text]

\* check_supplier_compliance that indexes its table without the membership
\* test.
check_supplier_compliance_unchecked(supplier_id) ==
    IF supplier_id \notin ComplianceSuppliers
    THEN [raised |-> TRUE, text |-> <<>>]
    ELSE ToolReturned(<<"Compliance Report for ", SupplierName(supplier_id), " (ID: ",
                        supplier_id, "):">>)

check_supplier_compliance(supplier_id) ==
    IF supplier_id \notin ComplianceSuppliers
    THEN ToolReturned(<<"Supplier ", supplier_id, " not found in compliance database.">>)
    ELSE ToolReturned(<<"Compliance Report for ", SupplierName(supplier_id), " (ID: ",
                        supplier_id, "):">>)

analyze_financial_risk(supplier_id) ==
    IF supplier_id \notin FinancialSuppliers
    THEN ToolReturned(<<"Financial data for supplier ", supplier_id, " not available.">>)
    ELSE ToolReturned(<<"Financial Risk Analysis for ", SupplierName(supplier_id), " (ID: ",
                        supplier_id, ")">>)

\* The head of the assessment report: one line per key that was given.
RiskReport(region, material, supplier_id) ==
    <<"Supply Chain Disruption Risk Assessment">>
    \o (IF Given(region) THEN <<"Region: ", region>> ELSE <<>>)
    \o (IF Given(material) THEN <<"Material: ", material>> ELSE <<>>)
    \o (IF Given(supplier_id) THEN <<"Supplier ID: ", supplier_id>> ELSE <<>>)

assess_disruption_risk(region, material, supplier_id) ==
    IF ~(Given(region) \/ Given(material) \/ Given(supplier_id))
    THEN ToolReturned(<<"Error: At least one parameter (region, material, or supplier_id) must be provided.">>)
    ELSE IF Given(region) /\ Lower(region) \notin RiskRegions
    THEN ToolReturned(<<"Error: ", "Region", " '", region, "' not found in risk database.">>)
    ELSE IF Given(material) /\ Lower(material) \notin RiskMaterials
    THEN ToolReturned(<<"Error: ", "Material", " '", material, "' not found in risk database.">>)
    ELSE IF Given(supplier_id) /\ supplier_id \notin RiskSuppliers
    THEN ToolReturned(<<"Error: ", "Supplier", " '", supplier_id, "' not found in risk database.">>)
    ELSE ToolReturned(RiskReport(region, material, supplier_id))

NoToolCall ==
    [tool |-> "none", region |-> PyNone, material |-> PyNone, supplier_id |-> PyNone]
NoToolResult == ToolReturned(<<>>)

-----------------------------------------------------------------------------
(* SupplyChainRAG and its module-level singleton.  An object holds what the
   methods read and write; init_runs, init_done and searches count how often
   the try block of initialize was entered, how often it ran to its end, and
   how often search was called on the object. *)

MaxSearches == 2

RagThreads == {1, 2}

NotInitializedText ==
    <<"RAG system not initialized. Please check your environment variables and try again.">>
RagErrorText == <<"Error during RAG search: ", "exception text">>
RagAnswer(query) == <<"answer to ">> \o query

\* SupplyChainRAG.__init__
NewRag ==
    [initialized |-> FALSE, retrieval_chain |-> FALSE, init_runs |-> 0, init_done |-> 0,
     searches |-> 0]

\* initialize without its except clause: a failure leaves the method.
initialize_body_unguarded(obj, ok) ==
    IF ok THEN [raised |-> FALSE, failed |-> FALSE, obj |-> [obj EXCEPT !.retrieval_chain = TRUE]]
    ELSE [raised |-> TRUE, failed |-> TRUE, obj |-> obj]

\* The try block of initialize up to the assignment of the retrieval chain,
\* and its except clause: a failure is printed and swallowed.
initialize_body(obj, ok) ==
    IF ok THEN [raised |-> FALSE, failed |-> FALSE, obj |-> [obj EXCEPT !.retrieval_chain = TRUE]]
    ELSE [raised |-> FALSE, failed |-> TRUE, obj |-> [obj EXCEPT !.initialized = FALSE]]

\* The retrieval call of search inside its try block.
retrieve(query, ok) ==
    IF ok THEN [raised |-> FALSE, text |-> RagAnswer(query)]
    ELSE [raised |-> FALSE, text |-> RagErrorText]

IdleThread ==
    [at |-> "idle", query |-> <<>>, obj |-> 0, init_failed |-> FALSE, results |-> <<>>]

RagInit == [instance |-> 0, objects |-> <<>>, threads |-> [t \in RagThreads |-> IdleThread]]

-----------------------------------------------------------------------------
(* The agent adapters of the multi-agent runner (FinancialAgent,
   SupplyChainAgent): each instance compiles its graph with a MemorySaver of
   its own and keeps a config whose thread_id is cut from a new uuid4.  A
   checkpointed message remembers the adapter and the thread_id it was
   written under. *)

MaxSessions == 3
MaxInvokes == 2

Adapters == {1, 2}
SessionIds == 1 .. MaxSessions

\* _create_config with one thread_id written into the code.
create_config_constant(minted) == 1

\* _create_config: the thread_id after `minted` uuids have been drawn.
create_config(minted) == minted + 1

\* _build_graph: the MemorySaver the graph of adapter a is compiled with.
build_graph(a) == a

AdapterMessage(type, a, session) == [type |-> type, by |-> a, session |-> session]

Unbuilt == [built |-> FALSE, thread_id |-> 0, checkpointer |-> 0, at |-> "idle", invokes |-> 0,
            tool_rounds |-> 0]

AdaptersInit ==
    [agent |-> [a \in Adapters |-> Unbuilt],
     savers |-> [c \in Adapters |-> [sid \in SessionIds |-> <<>>]],
     minted |-> 0]

-----------------------------------------------------------------------------
(* Orchestrators of one process and the callbacks their sub-graphs are invoked
   with: the module-level _subgraph_callbacks, the callbacks each constructor
   was given, and the callbacks entry of the config each wrapper last built
   in a query of each orchestrator. *)

Orchestrators == {1, 2}

\* What a constructor can be given: None or a list of handlers.
CallbackArgs == {PyNone, "callbacks_a", "callbacks_b"}

\* set_subgraph_callbacks: the value the global holds afterwards.
set_subgraph_callbacks(callbacks) == callbacks

\* The callbacks entry of the config a wrapper builds: the global's value
\* when that is truthy, no entry otherwise.
WrapperCallbacks(subgraph_callbacks) ==
    IF subgraph_callbacks # PyNone THEN subgraph_callbacks ELSE Absent

OrchestratorsInit ==
    [subgraph_callbacks |-> PyNone,
     given |-> [o \in Orchestrators |-> Absent],
     used |-> [o \in Orchestrators |-> [w \in {"supply_chain_agent", "financial_agent"} |->
                                             "not invoked"]]]

-----------------------------------------------------------------------------
(* The ReWOO planner graph: plan -> tool, tool -> (_route) tool or solve,
   solve -> END.  A step of the plan is one regex match, of which the
   evidence name and the tool matter here; results is the dict of evidence by
   name, which the state lacks until the tool node has returned once. *)

MaxPlanLen == 2
MaxToolRuns == 4

EvidenceNames == {"#E1", "#E2"}
PlanTools == {"Google", "LLM", "Calculator"}
PlanSteps == [step_name : EvidenceNames, tool : PlanTools]

\* re.findall on the planner's answer: any list of matches, none included.
Plans == UNION {[1 .. n -> PlanSteps] : n \in 0 .. MaxPlanLen}

RewooInit ==
    [at |-> "start", steps |-> <<>>, has_results |-> FALSE, results |-> <<>>,
     executed |-> <<>>, solved |-> 0, raised |-> "none"]

\* _get_current_task; 0 stands for None.
\* len(state["results"]) counts the keys of the dict.
_get_current_task(st) ==
    IF ~st.has_results THEN 1
    ELSE IF Cardinality(DOMAIN st.results) = Len(st.steps) THEN 0
    ELSE Cardinality(DOMAIN st.results) + 1

\* tool_execution: the step at _step - 1 is run and its result stored under
\* its evidence name; an index past the list and an unknown tool raise.
tool_execution(st) ==
    LET _step == _get_current_task(st)
    IN  IF _step - 1 \notin 0 .. (Len(st.steps) - 1)
        THEN [st EXCEPT !.at = "raised", !.raised = "IndexError"]
        ELSE LET step == st.steps[_step]
             IN  IF step.tool \notin {"Google", "LLM"}
                 THEN [st EXCEPT !.at = "raised", !.raised = "ValueError",
                                 !.executed = Append(@, _step)]
                 ELSE [st EXCEPT
                         !.at = "route",
                         !.has_results = TRUE,
                         !.results = [k \in DOMAIN st.results \cup {step.step_name} |->
                                         IF k = step.step_name THEN _step ELSE st.results[k]],
                         !.executed = Append(@, _step)]

\* _route: solve when _get_current_task is None, else tool again.
_route(st) == IF _get_current_task(st) = 0 THEN "solve" ELSE "tool"

-----------------------------------------------------------------------------
(* LangGraphUtils: the conversions between the framework-agnostic BaseMessage
   and the LangChain message classes. *)

BaseMessageType == {"AiMessage", "HumanMessage", "SystemMessage", "ToolMessage"}

MessageContents ==
    Queries \cup FinalAnswers("supply_chain_agent") \cup FinalAnswers("financial_agent")
        \cup SynthesisAnswers
        \cup {Sentinel, ToolResult, ToolCallContent, NotInitializedText, RagErrorText}

BaseMessage(message_type, content) == [message_type |-> message_type, content |-> content]

BaseMessages == {BaseMessage(t, c) : t \in BaseMessageType, c \in MessageContents}

NoMessage == Msg("none", <<>>, 0)
NoBaseMessage == BaseMessage("none", <<>>)

\* to_langchain_message.  ToolMessage(content=...) is built without a
\* tool_call_id; accepted tells whether the message class takes that.
to_langchain_message(base_message, accepted) ==
    CASE base_message.message_type = "AiMessage" ->
            [raised |-> FALSE, message |-> AIMessage(base_message.content, 0)]
      [] base_message.message_type = "HumanMessage" ->
            [raised |-> FALSE, message |-> HumanMessage(base_message.content)]
      [] base_message.message_type = "SystemMessage" ->
            [raised |-> FALSE, message |-> SystemMessage(base_message.content)]
      [] base_message.message_type = "ToolMessage" ->
            IF accepted THEN [raised |-> FALSE, message |-> ToolMessage(base_message.content)]
            ELSE [raised |-> TRUE, message |-> NoMessage]
      [] OTHER -> [raised |-> TRUE, message |-> NoMessage]

\* to_base_message: AIMessage and HumanMessage are converted, every other
\* class raises NotImplementedError.
to_base_message(langchain_message) ==
    CASE langchain_message.type = "ai" ->
            [raised |-> FALSE, message |-> BaseMessage("AiMessage", langchain_message.content)]
      [] langchain_message.type = "human" ->
            [raised |-> FALSE, message |-> BaseMessage("HumanMessage", langchain_message.content)]
      [] OTHER -> [raised |-> TRUE, message |-> NoBaseMessage]

ConversionInit ==
    [at |-> "none", m |-> NoBaseMessage, langchain |-> NoMessage, back |-> NoBaseMessage,
     raised |-> FALSE]

-----------------------------------------------------------------------------
(* The node functions called on their own, outside a run of the graph: the
   state they are called on, whether their LLM call succeeded, and what they
   ended with. *)

NoCall == [node |-> "none", st |-> EmptyState, ok |-> TRUE, result |-> Returned(NoUpdate, 0)]

-----------------------------------------------------------------------------
(* The agents that keep their messages in a list of their own: PlannerAgent,
   TranslationAgent, ResponseSynthesisAgent.  A kept message remembers how
   many resets the agent had seen when it was appended. *)

MaxResets == 2

ListAgents == {"planner", "translation", "synthesis"}

NewListAgent == [messages |-> <<>>, resets |-> 0, invokes |-> 0]

Kept(type, resets) == [type |-> type, resets |-> resets]

\* PlannerAgent.invoke: the human message is appended, then the response
\* unless the LLM call raised.
PlannerInvoke(agent, ok) ==
    LET asked == Append(agent.messages, Kept("human", agent.resets))
    IN  [agent EXCEPT !.messages = IF ok THEN Append(asked, Kept("ai", agent.resets))
                                   ELSE asked,
                      !.invokes = @ + 1]

\* TranslationAgent.invoke: the prompt is appended as a system message, then
\* the response unless the LLM call raised.
TranslationInvoke(agent, ok) ==
    LET asked == Append(agent.messages, Kept("system", agent.resets))
    IN  [agent EXCEPT !.messages = IF ok THEN Append(asked, Kept("ai", agent.resets))
                                   ELSE asked,
                      !.invokes = @ + 1]

\* ResponseSynthesisAgent.invoke with n = 2 or 3 messages: with two the
\* second is appended and returned without an LLM call, with three the LLM's
\* response is appended unless the call raised.
SynthesisInvoke(agent, n, ok) ==
    [agent EXCEPT !.messages = IF n = 2 \/ ok THEN Append(@, Kept("ai", agent.resets))
                               ELSE @,
                  !.invokes = @ + 1]

\* reset of PlannerAgent and TranslationAgent empties the list; reset of
\* ResponseSynthesisAgent is pass.
ListReset(g, agent) ==
    [agent EXCEPT !.messages = IF g = "synthesis" THEN @ ELSE <<>>,
                  !.resets = @ + 1]

ListedInit == [g \in ListAgents |-> NewListAgent]

-----------------------------------------------------------------------------
(* The workflow graph of get_modular_multi_agent, run in supersteps: the
   tasks of a superstep read the state as it was when the superstep began,
   their returned dicts are merged into the state when all of them have
   finished, and the edges out of the finished nodes give the next tasks. *)

Nodes ==
    {"intent_classifier", "supply_chain_agent", "financial_agent", "synthesize_followup",
     "spanish_translation", "hindi_translation", "multilingual_combination"}

Specialists == {"supply_chain_agent", "financial_agent"}

\* The order in which the returned dicts of one superstep are merged.
NodeOrder ==
    <<"financial_agent", "hindi_translation", "intent_classifier", "multilingual_combination",
      "spanish_translation", "supply_chain_agent", "synthesize_followup">>

VARIABLES
    pc,         \* the call in progress: "idle", "running", "returned", "raised"
    state,      \* the State of the run
    tasks,      \* per node: "none", "pending", "running", "finished" in this superstep
    writes,     \* per node: the dict its task returned
    sub,        \* the specialist sub-graph being run
    started,    \* per node: how often it has started in this run
    finished,   \* per node: how often it has returned in this run
    llm_calls,  \* per node: the LLM calls it has made in this run
    next_id,    \* the next fresh message id
    raised_by,  \* what raised, "none" if nothing did
    result,     \* what process_query returned
    decision,   \* what get_routing_decision returned
    wrote_by,   \* per response field: the nodes whose returned dict held it, in order
    final_id    \* per specialist: the id of the last message of its sub-graph's run

\* The tools, the RAG singleton, the agent adapters, the node functions called
\* on their own and the list-backed agents are separate programs.
VARIABLES tool_call, tool_result, rag, adapters, unit, listed

\* The process_query calls made on the orchestrator so far: for each, how the
\* call before it had ended ("idle" before the first).
VARIABLES queries

\* The orchestrators constructed in the process and the callbacks in use.
VARIABLES orchestrators

\* The ReWOO planner graph's run.
VARIABLES rewoo

\* A message on its way through to_langchain_message and to_base_message.
VARIABLES conversion

others == <<tool_call, tool_result, rag, adapters, unit, listed, queries, orchestrators, rewoo, conversion>>

vars ==
    <<pc, state, tasks, writes, sub, started, finished, llm_calls, next_id, raised_by,
      result, decision, wrote_by, final_id>>

ResponseFields == {"english_response", "spanish_response", "hindi_response"}

NoSub == [node |-> "none", at |-> "none", rounds |-> 0, state |-> EmptyState]
NoResult == <<Absent>>
NoDecision ==
    [status |-> "none", primary_agent |-> Absent, requires_collaboration |-> FALSE,
     execution_order |-> <<>>]

Init ==
    /\ pc = "idle"
    /\ state = EmptyState
    /\ tasks = [n \in Nodes |-> "none"]
    /\ writes = [n \in Nodes |-> NoUpdate]
    /\ sub = NoSub
    /\ started = [n \in Nodes |-> 0]
    /\ finished = [n \in Nodes |-> 0]
    /\ llm_calls = [n \in Nodes |-> 0]
    /\ next_id = 1
    /\ raised_by = "none"
    /\ result = NoResult
    /\ decision = NoDecision
    /\ wrote_by = [f \in ResponseFields |-> <<>>]
    /\ final_id = [n \in Specialists |-> 0]
    /\ tool_call = NoToolCall
    /\ tool_result = NoToolResult
    /\ rag = RagInit
    /\ adapters = AdaptersInit
    /\ unit = NoCall
    /\ listed = ListedInit
    /\ queries = <<>>
    /\ orchestrators = OrchestratorsInit
    /\ rewoo = RewooInit
    /\ conversion = ConversionInit

\* A merge whose messages reducer concatenates instead of merging by id.
ApplyUpdate_concatenates(st, u) ==
    [k \in DOMAIN st |->
        IF k = "messages" THEN st.messages \o u.messages
        ELSE IF u[k] = AbsentOf(k) THEN st[k] ELSE u[k]]

\* One returned dict merged into the state: messages through add_messages,
\* every other returned key overwrites.
ApplyUpdate(st, u) ==
    [k \in DOMAIN st |->
        IF k = "messages" THEN MergeById(st.messages, u.messages)
        ELSE IF u[k] = AbsentOf(k) THEN st[k] ELSE u[k]]

RECURSIVE ApplyWrites(_, _, _)
ApplyWrites(st, ws, order) ==
    IF order = <<>> THEN st
    ELSE ApplyWrites(IF Head(order) \in DOMAIN ws THEN ApplyUpdate(st, ws[Head(order)]) ELSE st,
                     ws, Tail(order))

\* Two tasks of one superstep returned the same last-value key.
InvalidUpdate(ws) ==
    \E a, b \in DOMAIN ws : a # b /\ \E k \in ScalarKeys :
        ws[a][k] # AbsentOf(k) /\ ws[b][k] # AbsentOf(k)


\* after_supply_chain that never hands over to the financial specialist.
after_supply_chain_skips_financial(st) == "synthesize_followup"

after_supply_chain(st) ==
    IF StateGet(st, "next_agent", PyNone) = "both_agents"
    THEN "financial_agent" ELSE "synthesize_followup"

\* The path map of the conditional edge out of intent_classifier.
RoutePathMap ==
    [r \in ValidAgents |-> IF r = "both_agents" THEN "supply_chain_agent" ELSE r]


\* The graph with an edge from synthesize_followup straight to the combination.
EdgesFrom_no_join(n, st) ==
    CASE n = "intent_classifier" ->
            IF route_to_agents(st) \in DOMAIN RoutePathMap
            THEN {RoutePathMap[route_to_agents(st)]} ELSE {"KeyError"}
      [] n = "supply_chain_agent" -> {after_supply_chain(st)}
      [] n = "financial_agent" -> {"synthesize_followup"}
      [] n = "synthesize_followup" ->
            {"spanish_translation", "hindi_translation", "multilingual_combination"}
      [] n = "spanish_translation" -> {}
      [] n = "hindi_translation" -> {}
      [] n = "multilingual_combination" -> {}

\* The nodes the edges out of node n lead to in state st; "KeyError" when the
\* router's answer is no key of the path map.
EdgesFrom(n, st) ==
    CASE n = "intent_classifier" ->
            IF route_to_agents(st) \in DOMAIN RoutePathMap
            THEN {RoutePathMap[route_to_agents(st)]} ELSE {"KeyError"}
      [] n = "supply_chain_agent" -> {after_supply_chain(st)}
      [] n = "financial_agent" -> {"synthesize_followup"}
      [] n = "synthesize_followup" -> {"spanish_translation", "hindi_translation"}
      [] n = "spanish_translation" -> {"multilingual_combination"}
      [] n = "hindi_translation" -> {"multilingual_combination"}
      [] n = "multilingual_combination" -> {}

NextTasks(done, st) == UNION {EdgesFrom(n, st) : n \in done}

\* process_query that returns the first message's content.
ProcessQueryResult_first(st) ==
    IF st.messages # <<>> THEN st.messages[1].content
    ELSE <<"No response generated">>

\* process_query's return value for the final state.
ProcessQueryResult(st) ==
    IF st.messages # <<>> THEN st.messages[Len(st.messages)].content
    ELSE <<"No response generated">>

-----------------------------------------------------------------------------
(* Actions *)

\* A graph whose run starts with the next_agent the run before left.
InitialState_keeps_next_agent(previous, user_query) ==
    [EmptyState EXCEPT !.messages = add_messages(<<>>, <<HumanMessage(user_query)>>, 1),
                       !.next_agent = previous.next_agent]

\* The state graph.invoke starts from: the graph is compiled without a
\* checkpointer, so the channels are empty whatever the run before
\* (previous) left, and take the input's one human message.
InitialState(previous, user_query) ==
    [EmptyState EXCEPT !.messages = add_messages(<<>>, <<HumanMessage(user_query)>>, 1)]

\* ModularMultiAgentOrchestrator.process_query: a fresh state that holds the
\* human message, handed to graph.invoke.
ProcessQuery(user_query) ==
    /\ pc # "running"
    /\ Len(queries) < MaxQueries
    /\ queries' = Append(queries, pc)
    /\ pc' = "running"
    /\ state' = InitialState(state, user_query)
    /\ tasks' = [n \in Nodes |-> IF n = "intent_classifier" THEN "pending" ELSE "none"]
    /\ writes' = [n \in Nodes |-> NoUpdate]
    /\ sub' = NoSub
    /\ started' = [n \in Nodes |-> 0]
    /\ finished' = [n \in Nodes |-> 0]
    /\ llm_calls' = [n \in Nodes |-> 0]
    /\ next_id' = 2
    /\ raised_by' = "none"
    /\ result' = NoResult
    /\ decision' = NoDecision
    /\ wrote_by' = [f \in ResponseFields |-> <<>>]
    /\ final_id' = [n \in Specialists |-> 0]
    /\ UNCHANGED <<tool_call, tool_result, rag, adapters, unit, listed, conversion, rewoo, orchestrators>>

\* The state a specialist's wrapper hands to its sub-graph.
SubgraphInput(n, st) ==
    IF n = "financial_agent" THEN financial_with_context(st)
    ELSE supply_chain_with_callbacks(st)

\* A wrapper that appends the context message to the list it was handed.
HandedMessagesAfter_appended_in_place(n, st) == SubgraphInput(n, st).messages

\* The list object state["messages"] the wrapper of n was handed, after the
\* wrapper built the sub-graph's input: state["messages"] + [context_message]
\* is a new list, the handed one keeps its elements.
HandedMessagesAfter(n, st) == st.messages

\* A pending task begins; a specialist's wrapper invokes its sub-graph, whose
\* own messages channel takes the input messages.
StartTask(n) ==
    /\ pc = "running"
    /\ tasks[n] = "pending"
    /\ tasks' = [tasks EXCEPT ![n] = "running"]
    /\ started' = [started EXCEPT ![n] = @ + 1]
    /\ IF n \in Specialists
       THEN LET input == SubgraphInput(n, state)
            IN  /\ sub' = [node |-> n, at |-> "chatbot", rounds |-> 0,
                           state |-> [input EXCEPT !.messages =
                                         add_messages(<<>>, input.messages, next_id)]]
                /\ next_id' = FreshAfter(input.messages, next_id)
                /\ state' = [state EXCEPT !.messages = HandedMessagesAfter(n, state)]
       ELSE UNCHANGED <<sub, next_id, state>>
    /\ UNCHANGED <<pc, writes, finished, llm_calls, raised_by, result, decision,
                   wrote_by, final_id, others>>

\* Node n's function ended with r: its dict is kept until the superstep ends,
\* an exception ends graph.invoke and process_query with it.
Complete(n, r) ==
    /\ llm_calls' = [llm_calls EXCEPT ![n] = @ + r.llm]
    /\ IF r.raised
       THEN /\ pc' = "raised"
            /\ raised_by' = n
            /\ UNCHANGED <<tasks, writes, finished, next_id, wrote_by>>
       ELSE /\ tasks' = [tasks EXCEPT ![n] = "finished"]
            /\ finished' = [finished EXCEPT ![n] = @ + 1]
            /\ writes' = [writes EXCEPT ![n] =
                             [r.update EXCEPT !.messages = AssignIds(r.update.messages, next_id)]]
            /\ next_id' = FreshAfter(r.update.messages, next_id)
            /\ wrote_by' = [f \in ResponseFields |->
                               IF r.update[f] # AbsentOf(f) THEN Append(wrote_by[f], n)
                               ELSE wrote_by[f]]
            /\ UNCHANGED <<pc, raised_by>>
    /\ UNCHANGED <<state, started, result, decision, others>>

Running(n) == pc = "running" /\ tasks[n] = "running"

IntentClassifier ==
    /\ Running("intent_classifier")
    /\ \E outcome \in ClassifierOutcomes :
          Complete("intent_classifier", intent_classifier(state, outcome))
    /\ UNCHANGED <<sub, final_id>>

\* A conditional edge that ends the sub-graph after every response.
tools_condition_always_ends(message) == "end"

\* The conditional edge out of chatbot: tools when the response carries tool
\* calls, END otherwise.
tools_condition(message) == IF message.tool_calls > 0 THEN "tools" ELSE "end"

\* The chatbot node of a specialist sub-graph: the LLM call raises, answers
\* with tool calls, or answers without; tools_condition picks what follows.
Chatbot(n) ==
    /\ Running(n)
    /\ sub.node = n
    /\ sub.at = "chatbot"
    /\ \/ /\ Complete(n, Raised(1))
          /\ UNCHANGED <<sub, final_id>>
       \/ /\ \E message \in {AIMessage(c, 0) : c \in FinalAnswers(n)}
                           \cup (IF sub.rounds < MaxToolRounds
                                 THEN {AIMessage(ToolCallContent, 1)} ELSE {}) :
                sub' = [sub EXCEPT
                          !.state.messages = add_messages(@, <<message>>, next_id),
                          !.at = tools_condition(message)]
          /\ next_id' = next_id + 1
          /\ llm_calls' = [llm_calls EXCEPT ![n] = @ + 1]
          /\ UNCHANGED <<pc, state, tasks, writes, started, finished, raised_by, result, decision,
                         wrote_by, final_id, others>>

\* The tools node: one tool message for the pending tool call, then chatbot.
Tools(n) ==
    /\ Running(n)
    /\ sub.node = n
    /\ sub.at = "tools"
    /\ sub' = [sub EXCEPT
                 !.state.messages = add_messages(@, <<ToolMessage(ToolResult)>>, next_id),
                 !.at = "chatbot",
                 !.rounds = @ + 1]
    /\ next_id' = next_id + 1
    /\ UNCHANGED <<pc, state, tasks, writes, started, finished, llm_calls, raised_by, result,
                   decision, wrote_by, final_id, others>>

\* A sub-graph that stays at END and never hands its state back.
SpecialistReturns_hangs(n) ==
    /\ Running(n)
    /\ sub.node = n
    /\ sub.at = "end"
    /\ UNCHANGED <<vars, others>>

\* The sub-graph reached END: the wrapper returns the sub-graph's state.
SpecialistReturns(n) ==
    /\ Running(n)
    /\ sub.node = n
    /\ sub.at = "end"
    /\ Complete(n, Returned(sub.state, 0))
    /\ sub' = NoSub
    /\ final_id' = [final_id EXCEPT ![n] = sub.state.messages[Len(sub.state.messages)].id]

SynthesizeFollowup ==
    /\ Running("synthesize_followup")
    /\ \E outcome \in TextOutcomes(SynthesisAnswers) :
          Complete("synthesize_followup", synthesize_followup(state, outcome))
    /\ UNCHANGED <<sub, final_id>>

SpanishTranslation ==
    /\ Running("spanish_translation")
    /\ \E ok \in BOOLEAN : Complete("spanish_translation", spanish_translation(state, ok))
    /\ UNCHANGED <<sub, final_id>>

HindiTranslation ==
    /\ Running("hindi_translation")
    /\ \E ok \in BOOLEAN : Complete("hindi_translation", hindi_translation(state, ok))
    /\ UNCHANGED <<sub, final_id>>

MultilingualCombination ==
    /\ Running("multilingual_combination")
    /\ Complete("multilingual_combination", multilingual_combination(state))
    /\ UNCHANGED <<sub, final_id>>

\* Every task of the superstep has finished: merge what they returned, follow
\* the edges; with no task left graph.invoke returns and process_query
\* returns the last message's content.
EndSuperstep ==
    /\ pc = "running"
    /\ \A n \in Nodes : tasks[n] \in {"none", "finished"}
    /\ \E n \in Nodes : tasks[n] = "finished"
    /\ LET done == {n \in Nodes : tasks[n] = "finished"}
           ws == [n \in done |-> writes[n]]
           st == ApplyWrites(state, ws, NodeOrder)
           next == NextTasks(done, st)
       IN  IF InvalidUpdate(ws) \/ "KeyError" \in next
           THEN /\ pc' = "raised"
                /\ raised_by' = IF InvalidUpdate(ws) THEN "InvalidUpdateError" ELSE "route_to_agents"
                /\ UNCHANGED <<state, tasks, result>>
           ELSE /\ state' = st
                /\ tasks' = [n \in Nodes |-> IF n \in next THEN "pending" ELSE "none"]
                /\ pc' = IF next = {} THEN "returned" ELSE "running"
                /\ result' = IF next = {} THEN ProcessQueryResult(st) ELSE result
                /\ UNCHANGED raised_by
    /\ writes' = [n \in Nodes |-> NoUpdate]
    /\ UNCHANGED <<sub, started, finished, llm_calls, next_id, decision, wrote_by, final_id,
                   others>>

\* str.replace("_agent", "") of the routes the classifier can return.
RemoveAgentSuffix(next_agent) ==
    CASE next_agent = "supply_chain_agent" -> "supply_chain"
      [] next_agent = "financial_agent" -> "financial"
      [] next_agent = "both_agents" -> "both_agents"
      [] next_agent = "hr_agent" -> "hr"

\* What get_routing_decision returns for a classifier outcome.
get_routing_decision(user_query, outcome) ==
    LET classifier_result ==
            intent_classifier([EmptyState EXCEPT !.messages = <<HumanMessage(user_query)>>],
                              outcome)
        next_agent == StateGet(classifier_result.update, "next_agent", "supply_chain_agent")
    IN  IF classifier_result.raised \/ next_agent = PyNone
        THEN [NoDecision EXCEPT !.status = "raised"]
        ELSE [status |-> "returned",
              primary_agent |-> next_agent,
              requires_collaboration |-> (next_agent = "both_agents"),
              execution_order |-> IF next_agent = "both_agents"
                                  THEN <<"supply_chain", "financial">>
                                  ELSE <<RemoveAgentSuffix(next_agent)>>]

\* ModularMultiAgentOrchestrator.get_routing_decision, called between queries.
GetRoutingDecision(user_query) ==
    /\ pc # "running"
    /\ \E outcome \in ClassifierOutcomes :
          decision' = get_routing_decision(user_query, outcome)
    /\ pc' = "idle"
    /\ state' = EmptyState
    /\ tasks' = [n \in Nodes |-> "none"]
    /\ started' = [n \in Nodes |-> 0]
    /\ finished' = [n \in Nodes |-> 0]
    /\ llm_calls' = [n \in Nodes |-> 0]
    /\ next_id' = 1
    /\ raised_by' = "none"
    /\ result' = NoResult
    /\ writes' = [n \in Nodes |-> NoUpdate]
    /\ sub' = NoSub
    /\ wrote_by' = [f \in ResponseFields |-> <<>>]
    /\ final_id' = [n \in Specialists |-> 0]
    /\ UNCHANGED others

Next ==
    \/ \E q \in Queries : ProcessQuery(q)
    \/ \E q \in Queries : GetRoutingDecision(q)
    \/ \E n \in Nodes : StartTask(n)
    \/ IntentClassifier
    \/ \E n \in Specialists : Chatbot(n)
    \/ \E n \in Specialists : Tools(n)
    \/ \E n \in Specialists : SpecialistReturns(n)
    \/ SynthesizeFollowup
    \/ SpanishTranslation
    \/ HindiTranslation
    \/ MultilingualCombination
    \/ EndSuperstep

allvars == <<vars, others>>

Spec == Init /\ [][Next]_allvars

-----------------------------------------------------------------------------
(* Properties *)

\* The dict node n returned, while the superstep it ran in has not ended.
Wrote(n) == writes[n]

InRun == pc # "idle" /\ state.messages # <<>>

\* The text of the query the run was started with.
UserQuery == state.messages[1].content

\* C1: process_query returns a string and never raises, whatever LLM, tool or
\* retrieval call fails during the run.
C1_ProcessQueryNeverRaises ==
    /\ pc # "raised"
    /\ pc = "returned" => result # NoResult

\* C2: the next_agent that intent_classifier writes is one of
\* supply_chain_agent, financial_agent, both_agents for every response of the
\* classifier LLM; any other primary_agent is remapped to supply_chain_agent.
C2_NextAgentIsARoute ==
    /\ Wrote("intent_classifier").next_agent \in ValidAgents \cup {Absent}
    /\ state.next_agent \in ValidAgents \cup {Absent}

\* C3: intent_classifier never raises, for every outcome of the classifier
\* LLM call, a failing call included.
C3_ClassifierNeverRaises == raised_by # "intent_classifier"

\* C4: when no message has non-empty content, intent_classifier returns
\* supply_chain_agent and makes no call to the LLM.
C4_NoContentNoLlmCall ==
    (InRun /\ ~Truthy(UserQuery)) =>
        /\ llm_calls["intent_classifier"] = 0
        /\ raised_by # "intent_classifier"
        /\ tasks["intent_classifier"] = "finished" =>
               Wrote("intent_classifier") = [NoUpdate EXCEPT !.next_agent = "supply_chain_agent"]
        /\ (finished["intent_classifier"] = 1 /\ tasks["intent_classifier"] = "none") =>
               state.next_agent = "supply_chain_agent"

C4_Witness ==
    /\ InRun
    /\ ~Truthy(UserQuery)
    /\ tasks["intent_classifier"] = "finished"
    /\ Wrote("intent_classifier").next_agent = "supply_chain_agent"

\* C5: get_routing_decision returns, without raising, a record in which
\* requires_collaboration is true exactly for both_agents and execution_order
\* is [supply_chain, financial] then and the single chosen agent otherwise.
C5_RoutingDecisionReturned ==
    /\ decision.status # "raised"
    /\ decision.status = "returned" =>
          /\ decision.requires_collaboration = (decision.primary_agent = "both_agents")
          /\ decision.execution_order =
                IF decision.primary_agent = "both_agents"
                THEN <<"supply_chain", "financial">>
                ELSE <<RemoveAgentSuffix(decision.primary_agent)>>

Done(n) == finished[n] = 1
Began(n) == started[n] > 0

\* The order of the steps of a run routed to both_agents: none begins before
\* the one before it has returned.
CollaborativeOrder ==
    /\ Began("supply_chain_agent") => Done("intent_classifier")
    /\ Began("financial_agent") => Done("supply_chain_agent")
    /\ Began("synthesize_followup") => Done("financial_agent")
    /\ Began("spanish_translation") => Done("synthesize_followup")
    /\ Began("hindi_translation") => Done("synthesize_followup")
    /\ Began("multilingual_combination") =>
          Done("spanish_translation") /\ Done("hindi_translation")
    /\ pc = "returned" => \A n \in Nodes : Done(n)

\* The financial sub-graph is running on messages that hold a context message.
FinancialRunning == sub.node = "financial_agent"
ContextInjected == \E i \in DOMAIN sub.state.messages : sub.state.messages[i].type = "system"

C7_RoutingRunsChosenSpecialists ==
    InRun =>
        /\ state.next_agent = Absent => \A n \in Specialists : ~Began(n)
        /\ state.next_agent = "supply_chain_agent" =>
              /\ ~Began("financial_agent")
              /\ Began("synthesize_followup") => Done("supply_chain_agent")
        /\ state.next_agent = "financial_agent" =>
              /\ ~Began("supply_chain_agent")
              /\ Began("synthesize_followup") => Done("financial_agent")
        /\ state.next_agent = "both_agents" =>
              /\ Began("financial_agent") => Done("supply_chain_agent")
              /\ Began("synthesize_followup") =>
                    Done("supply_chain_agent") /\ Done("financial_agent")
        /\ \A n \in Specialists : started[n] <= 1

C7_Witness ==
    /\ pc = "returned"
    /\ state.next_agent = "financial_agent"
    /\ Done("financial_agent")
    /\ ~Began("supply_chain_agent")

\* What a translation step leaves in its field for the state it read.
TranslationOf(lang, st) ==
    IF Truthy(EnglishOf(st)) THEN Translate(lang, EnglishOf(st)) ELSE Sentinel

\* C8: multilingual_combination begins only after both translation steps have
\* returned, in every interleaving of the two, and the state it reads holds
\* spanish_response and hindi_response (a translation or the sentinel).
C8_JoinBarrier ==
    Began("multilingual_combination") =>
        /\ Done("spanish_translation") /\ Done("hindi_translation")
        /\ tasks["spanish_translation"] = "none" /\ tasks["hindi_translation"] = "none"
        /\ state.spanish_response # AbsentOf("spanish_response")
        /\ state.hindi_response # AbsentOf("hindi_response")
        /\ tasks["multilingual_combination"] = "running" =>
              /\ state.spanish_response = TranslationOf("es", state)
              /\ state.hindi_response = TranslationOf("hi", state)

C8_Witness ==
    /\ tasks["multilingual_combination"] = "running"
    /\ state.spanish_response = Translate("es", EnglishOf(state))
    /\ state.hindi_response = Translate("hi", EnglishOf(state))

\* C9: each translation step writes its own field and nothing else, reads
\* nothing the other wrote, and the state after both and the combined document
\* are the same in whichever order the two ran.
C9_TranslationsIndependent ==
    /\ tasks["spanish_translation"] = "finished" =>
          Wrote("spanish_translation") =
              [NoUpdate EXCEPT !.spanish_response = TranslationOf("es", state)]
    /\ tasks["hindi_translation"] = "finished" =>
          Wrote("hindi_translation") =
              [NoUpdate EXCEPT !.hindi_response = TranslationOf("hi", state)]
    /\ tasks["multilingual_combination"] \in {"pending", "running", "finished"} =>
          /\ state.spanish_response = TranslationOf("es", state)
          /\ state.hindi_response = TranslationOf("hi", state)
          /\ state.english_response = AbsentOf("english_response")
    /\ tasks["multilingual_combination"] = "finished" =>
          Wrote("multilingual_combination").messages[1].content =
              MultilingualResponse(EnglishOf(state), TranslationOf("es", state),
                                   TranslationOf("hi", state))

\* Hindi returned while Spanish, begun, has not: one of the interleavings.
C9_Witness ==
    /\ tasks["hindi_translation"] = "finished"
    /\ tasks["spanish_translation"] = "running"
    /\ Wrote("hindi_translation").hindi_response = Translate("hi", EnglishOf(state))
    /\ Truthy(EnglishOf(state))

\* The places of token t in text d.
Places(d, t) == {i \in DOMAIN d : d[i] = t}

\* The text between the header at place h and the divider that ends its section.
Section(d, h) ==
    LET dividers == {i \in Places(d, Divider) : i > h}
    IN  SubSeq(d, h + 1, (CHOOSE i \in dividers : \A j \in dividers : i <= j) - 1)

\* C10: the document of multilingual_combination holds the English, Spanish
\* and Hindi headers once each, in that order, each followed by its response
\* value, and a sentinel value appears verbatim in its section.
C10_ThreeSections ==
    tasks["multilingual_combination"] = "finished" =>
        LET d == Wrote("multilingual_combination").messages[1].content
            e == Places(d, EnglishHeader)
            s == Places(d, SpanishHeader)
            h == Places(d, HindiHeader)
        IN  /\ Len(Wrote("multilingual_combination").messages) = 1
            /\ Cardinality(e) = 1 /\ Cardinality(s) = 1 /\ Cardinality(h) = 1
            /\ \A i \in e, j \in s, k \in h :
                  /\ i < j /\ j < k
                  /\ Section(d, i) = EnglishOf(state)
                  /\ Section(d, j) = state.spanish_response
                  /\ Section(d, k) = state.hindi_response

C10_Witness ==
    /\ tasks["multilingual_combination"] = "finished"
    /\ state.spanish_response = Sentinel
    /\ state.hindi_response = Sentinel
    /\ Sentinel[1] \in Range(Wrote("multilingual_combination").messages[1].content)

\* C11: when a run completes, the last message of the final state is the one
\* AI message the combination step appended, no other message of the list is a
\* combined document, and process_query returned that message's content.
C11_CombinedMessageIsReturned ==
    pc = "returned" =>
        LET n == Len(state.messages)
            before == [state EXCEPT !.messages = SubSeq(state.messages, 1, n - 1)]
        IN  /\ finished["multilingual_combination"] = 1
            /\ n >= 2
            /\ state.messages[n].type = "ai"
            /\ state.messages[n].content =
                  MultilingualResponse(EnglishOf(before), state.spanish_response,
                                       state.hindi_response)
            /\ {i \in 1 .. n : Title \in Range(state.messages[i].content)} = {n}
            /\ result = state.messages[n].content

C11_Witness ==
    /\ pc = "returned"
    /\ state.next_agent = "both_agents"
    /\ Len(state.messages) >= 5
    /\ result[1] = Title

\* C12: a failing translator LLM call does not abort the workflow: no run is
\* ended by an exception of spanish_translation or hindi_translation.
C12_TranslationFailureIsCaught ==
    raised_by \notin {"spanish_translation", "hindi_translation"}

\* Text part occurs in text as a contiguous run of tokens.
Contains(text, part) ==
    \E k \in 0 .. (Len(text) - Len(part)) : SubSeq(text, k + 1, k + Len(part)) = part

\* C13: the messages the financial sub-graph is invoked with are the state's
\* messages followed by one system message that holds verbatim the content of
\* the latest message mentioning "supply chain", exactly when such a message
\* exists and next_agent is both_agents; otherwise they are the state's
\* messages and the sub-graph never sees a system message.
C13_ContextExactlyWhenCollaborative ==
    FinancialRunning =>
        LET msgs == state.messages
            n == Len(msgs)
            given == sub.state.messages
            mentions == {i \in 1 .. n : MentionsSupplyChain(msgs[i].content)}
        IN  /\ Len(given) >= n
            /\ SubSeq(given, 1, n) = msgs
            /\ IF mentions # {} /\ state.next_agent = "both_agents"
               THEN /\ Len(given) > n
                    /\ given[n + 1].type = "system"
                    /\ Contains(given[n + 1].content, msgs[MaxOf(mentions)].content)
                    /\ \A i \in (n + 2) .. Len(given) : given[i].type # "system"
               ELSE \A i \in 1 .. Len(given) : given[i].type # "system"

C13_Witness ==
    /\ FinancialRunning
    /\ state.next_agent = "both_agents"
    /\ ~MentionsSupplyChain(state.messages[1].content)
    /\ \E i \in DOMAIN sub.state.messages :
          /\ sub.state.messages[i].type = "system"
          /\ Contains(sub.state.messages[i].content,
                      <<"supply_chain_agent", "report", "supply chain">>)

\* Every result the function of node n can end with on state st.
NodeResults(n, st) ==
    CASE n = "intent_classifier" -> {intent_classifier(st, o) : o \in ClassifierOutcomes}
      [] n = "synthesize_followup" ->
            {synthesize_followup(st, o) : o \in TextOutcomes(SynthesisAnswers)}
      [] n = "spanish_translation" -> {spanish_translation(st, ok) : ok \in BOOLEAN}
      [] n = "hindi_translation" -> {hindi_translation(st, ok) : ok \in BOOLEAN}
      [] n = "multilingual_combination" -> {multilingual_combination(st)}

\* Node n reads field f: what it ends with on the state it runs on changes
\* when only that field is given another value.
ReadsField(n, f) ==
    NodeResults(n, [state EXCEPT ![f] = <<"some other text">>]) # NodeResults(n, state)

OwnNodes == Nodes \ Specialists

IsPrefix(a, b) == Len(a) <= Len(b) /\ SubSeq(b, 1, Len(a)) = a

NoDuplicates(msgs) == \A i, j \in DOMAIN msgs : i # j => msgs[i].id # msgs[j].id

\* C15: every step of a run leaves the messages list of the state, and the
\* list of the running sub-graph, a prefix of the list after the step, and no
\* message occurs twice in the list: nothing is removed, reordered or
\* duplicated.
C15_MessagesAppendOnly ==
    [][/\ pc = "running" /\ pc' # "idle" => IsPrefix(state.messages, state'.messages)
       /\ sub.node # "none" /\ sub'.node = sub.node =>
             IsPrefix(sub.state.messages, sub'.state.messages)
       /\ NoDuplicates(state'.messages)]_allvars

C15_Witness ==
    /\ pc = "running"
    /\ tasks["synthesize_followup"] = "pending"
    /\ state.next_agent = "both_agents"
    /\ \E i \in DOMAIN state.messages : state.messages[i].type = "system"
    /\ \E i \in DOMAIN state.messages : state.messages[i].type = "tool"

\* C16: within a run next_agent changes only when the classifier's dict is
\* merged; once set it keeps its value in every later state, and whatever a
\* specialist wrapper, the synthesis, a translation or the combination
\* returns either leaves the key out or holds the value it already has.
C16_NextAgentSetOnce ==
    [][/\ pc = "running" /\ pc' # "idle" /\ state.next_agent # Absent =>
             state'.next_agent = state.next_agent
       /\ pc = "running" /\ state'.next_agent # state.next_agent =>
             tasks["intent_classifier"] = "finished"
       /\ \A n \in Nodes \ {"intent_classifier"} :
             writes'[n].next_agent \in {Absent, state.next_agent}]_allvars

C16_Witness ==
    /\ tasks["financial_agent"] = "finished"
    /\ writes["financial_agent"].next_agent = "both_agents"
    /\ state.next_agent = "both_agents"

-----------------------------------------------------------------------------
(* The agent adapters: construction, reset and invocation, the graph of an
   invocation run step by step so that invocations on two adapters interleave. *)

Ag(a) == adapters.agent[a]

\* The checkpointed messages an invocation on adapter a starts from and
\* extends.
History(a) == adapters.savers[Ag(a).checkpointer][Ag(a).thread_id]

\* A get_message_history that returns the checkpointed list as it is.
get_message_history_unfiltered(a) == History(a)

\* get_message_history: the HumanMessage and AIMessage entries of the
\* thread's checkpointed messages, in their order.
get_message_history(a) ==
    SelectSeq(History(a), LAMBDA m : m.type \in {"human", "ai"})

Checkpoint(a, type) ==
    [adapters.savers EXCEPT ![Ag(a).checkpointer][Ag(a).thread_id] =
        Append(@, AdapterMessage(type, a, Ag(a).thread_id))]

NotAdapters == <<vars, tool_call, tool_result, rag, unit, listed, queries, orchestrators, rewoo, conversion>>

\* __init__: a config with a new thread_id and a graph with a new MemorySaver.
Construct(a) ==
    /\ ~Ag(a).built
    /\ adapters.minted < MaxSessions
    /\ adapters' = [adapters EXCEPT
                       !.agent[a] = [Unbuilt EXCEPT !.built = TRUE,
                                                    !.thread_id = create_config(adapters.minted),
                                                    !.checkpointer = build_graph(a)],
                       !.savers[build_graph(a)] = [sid \in SessionIds |-> <<>>],
                       !.minted = @ + 1]
    /\ UNCHANGED NotAdapters

\* reset: a new config for the same graph.
Reset(a) ==
    /\ Ag(a).built
    /\ Ag(a).at = "idle"
    /\ adapters.minted < MaxSessions
    /\ adapters' = [adapters EXCEPT !.agent[a].thread_id = create_config(adapters.minted),
                                    !.minted = @ + 1]
    /\ UNCHANGED NotAdapters

\* invoke: the one human message is added to the thread of the config.
Invoke(a) ==
    /\ Ag(a).built
    /\ Ag(a).at = "idle"
    /\ Ag(a).invokes < MaxInvokes
    /\ adapters' = [adapters EXCEPT !.agent[a].at = "chatbot",
                                    !.agent[a].invokes = @ + 1,
                                    !.agent[a].tool_rounds = 0,
                                    !.savers = Checkpoint(a, "human")]
    /\ UNCHANGED NotAdapters

\* The chatbot node of the adapter's graph: the LLM call raises and ends the
\* invocation, answers and ends it, or asks for a tool.
AdapterChatbot(a) ==
    /\ Ag(a).at = "chatbot"
    /\ \/ adapters' = [adapters EXCEPT !.agent[a].at = "idle"]
       \/ adapters' = [adapters EXCEPT !.agent[a].at = "idle",
                                       !.savers = Checkpoint(a, "ai")]
       \/ /\ Ag(a).tool_rounds < MaxToolRounds
          /\ adapters' = [adapters EXCEPT !.agent[a].at = "tools",
                                          !.savers = Checkpoint(a, "ai")]
    /\ UNCHANGED NotAdapters

AdapterTools(a) ==
    /\ Ag(a).at = "tools"
    /\ adapters' = [adapters EXCEPT !.agent[a].at = "chatbot",
                                    !.agent[a].tool_rounds = @ + 1,
                                    !.savers = Checkpoint(a, "tool")]
    /\ UNCHANGED NotAdapters

NextAdapters ==
    \/ \E a \in Adapters : Construct(a)
    \/ \E a \in Adapters : Reset(a)
    \/ \E a \in Adapters : Invoke(a)
    \/ \E a \in Adapters : AdapterChatbot(a)
    \/ \E a \in Adapters : AdapterTools(a)

SpecAdapters == Init /\ [][NextAdapters]_allvars

-----------------------------------------------------------------------------
(* rag_search: get_rag_instance, then search on the instance, which
   initializes it on demand.  Each read or write of the module-level instance
   and of the object's fields is a step of the calling thread. *)

Th(t) == rag.threads[t]
Obj(t) == rag.objects[Th(t).obj]

NotRag == <<vars, tool_call, tool_result, adapters, unit, listed, queries, orchestrators, rewoo, conversion>>

Goto(t, at) == [rag EXCEPT !.threads[t].at = at]

\* search returns text, or ends with an exception.
Finish(t, raised, text) ==
    [rag EXCEPT !.threads[t] =
        [IdleThread EXCEPT !.results =
            Append(Th(t).results,
                   [query |-> Th(t).query, raised |-> raised, text |-> text,
                    init_failed |-> Th(t).init_failed])]]

RagSearch(t) ==
    /\ Th(t).at = "idle"
    /\ Len(Th(t).results) < MaxSearches
    /\ \E query \in Queries :
          rag' = [rag EXCEPT !.threads[t].at = "get_instance", !.threads[t].query = query]
    /\ UNCHANGED NotRag

\* get_rag_instance: the test of the global.
GetRagInstance(t) ==
    /\ Th(t).at = "get_instance"
    /\ rag' = Goto(t, IF rag.instance = 0 THEN "create" ELSE "return_instance")
    /\ UNCHANGED NotRag

\* get_rag_instance: the global is assigned a new object.
CreateRag(t) ==
    /\ Th(t).at = "create"
    /\ rag' = [rag EXCEPT !.objects = Append(@, NewRag),
                          !.instance = Len(rag.objects) + 1,
                          !.threads[t].at = "return_instance"]
    /\ UNCHANGED NotRag

\* get_rag_instance returns what the global holds now.
ReturnRag(t) ==
    /\ Th(t).at = "return_instance"
    /\ rag' = [rag EXCEPT !.threads[t].obj = rag.instance, !.threads[t].at = "search"]
    /\ UNCHANGED NotRag

\* search: the test of _initialized.
Search(t) ==
    /\ Th(t).at = "search"
    /\ rag' = [rag EXCEPT !.objects[Th(t).obj].searches = @ + 1,
                          !.threads[t].at = IF Obj(t).initialized THEN "check_chain"
                                            ELSE "initialize"]
    /\ UNCHANGED NotRag

\* initialize: returns at once when _initialized, else enters its try block.
Initialize(t) ==
    /\ Th(t).at = "initialize"
    /\ rag' = IF Obj(t).initialized THEN Goto(t, "check_chain")
              ELSE [rag EXCEPT !.objects[Th(t).obj].init_runs = @ + 1,
                               !.threads[t].at = "init_body"]
    /\ UNCHANGED NotRag

InitializeBody(t) ==
    /\ Th(t).at = "init_body"
    /\ \E ok \in BOOLEAN :
          LET r == initialize_body(Obj(t), ok)
          IN  rag' = IF r.raised THEN Finish(t, TRUE, <<>>)
                     ELSE [rag EXCEPT !.objects[Th(t).obj] = r.obj,
                                      !.threads[t].init_failed = r.failed,
                                      !.threads[t].at = IF r.failed THEN "check_chain"
                                                        ELSE "init_finish"]
    /\ UNCHANGED NotRag

\* initialize: _initialized = True at the end of the try block.
InitializeFinish(t) ==
    /\ Th(t).at = "init_finish"
    /\ rag' = [rag EXCEPT !.objects[Th(t).obj].initialized = TRUE,
                          !.objects[Th(t).obj].init_done = @ + 1,
                          !.threads[t].at = "check_chain"]
    /\ UNCHANGED NotRag

\* search: without a retrieval chain the not-initialized text is returned.
CheckChain(t) ==
    /\ Th(t).at = "check_chain"
    /\ rag' = IF ~Obj(t).retrieval_chain THEN Finish(t, FALSE, NotInitializedText)
              ELSE Goto(t, "retrieve")
    /\ UNCHANGED NotRag

Retrieve(t) ==
    /\ Th(t).at = "retrieve"
    /\ \E ok \in BOOLEAN :
          rag' = Finish(t, retrieve(Th(t).query, ok).raised, retrieve(Th(t).query, ok).text)
    /\ UNCHANGED NotRag

RagStep(t) ==
    \/ RagSearch(t)
    \/ GetRagInstance(t)
    \/ CreateRag(t)
    \/ ReturnRag(t)
    \/ Search(t)
    \/ Initialize(t)
    \/ InitializeBody(t)
    \/ InitializeFinish(t)
    \/ CheckChain(t)
    \/ Retrieve(t)

\* Searches made one after another.
SequentialCallers == {1}

NextRag == \E t \in SequentialCallers : RagStep(t)

SpecRag == Init /\ [][NextRag]_allvars

\* C18: no search ends with an exception; each returns the answer, the
\* retrieval error text or the not-initialized text, and the not-initialized
\* text when its initialization failed; an object on which search has not been
\* called has not been initialized.
C18_SearchNeverRaises ==
    /\ \A t \in RagThreads : \A i \in DOMAIN Th(t).results :
          LET r == Th(t).results[i]
          IN  /\ ~r.raised
              /\ r.text \in {RagAnswer(r.query), RagErrorText, NotInitializedText}
              /\ r.init_failed => r.text = NotInitializedText
    /\ \A k \in DOMAIN rag.objects :
          rag.objects[k].searches = 0 =>
              rag.objects[k].init_runs = 0 /\ ~rag.objects[k].retrieval_chain

C18_Witness ==
    /\ Len(Th(1).results) = 2
    /\ Th(1).results[1].init_failed /\ Th(1).results[1].text = NotInitializedText
    /\ Th(1).results[2].text = RagErrorText
    /\ rag.objects[1].init_runs = 2

-----------------------------------------------------------------------------
(* Calls of the mock tools with every combination of the keys above. *)

NotTools == <<vars, rag, adapters, unit, listed, queries, orchestrators, rewoo, conversion>>

CallCompliance ==
    /\ \E supplier_id \in SupplierIds :
          /\ tool_call' = [NoToolCall EXCEPT !.tool = "check_supplier_compliance",
                                             !.supplier_id = supplier_id]
          /\ tool_result' = check_supplier_compliance(supplier_id)
    /\ UNCHANGED NotTools

CallFinancialRisk ==
    /\ \E supplier_id \in SupplierIds :
          /\ tool_call' = [NoToolCall EXCEPT !.tool = "analyze_financial_risk",
                                             !.supplier_id = supplier_id]
          /\ tool_result' = analyze_financial_risk(supplier_id)
    /\ UNCHANGED NotTools

CallDisruptionRisk ==
    /\ \E region \in RegionArgs, material \in MaterialArgs, supplier_id \in SupplierArgs :
          /\ tool_call' = [tool |-> "assess_disruption_risk", region |-> region,
                           material |-> material, supplier_id |-> supplier_id]
          /\ tool_result' = assess_disruption_risk(region, material, supplier_id)
    /\ UNCHANGED NotTools

NextTools == CallCompliance \/ CallFinancialRisk \/ CallDisruptionRisk

SpecTools == Init /\ [][NextTools]_allvars

\* The keys of an assess_disruption_risk call that were given and are in no
\* table, as <<kind, key>> in the order region, material, supplier.
UnknownKeys(call) ==
    (IF Given(call.region) /\ Lower(call.region) \notin RiskRegions
     THEN <<(<<"Region", call.region>>)>> ELSE <<>>)
    \o (IF Given(call.material) /\ Lower(call.material) \notin RiskMaterials
        THEN <<(<<"Material", call.material>>)>> ELSE <<>>)
    \o (IF Given(call.supplier_id) /\ call.supplier_id \notin RiskSuppliers
        THEN <<(<<"Supplier", call.supplier_id>>)>> ELSE <<>>)

\* C19 as stated: no tool call raises, and the text returned for a call names
\* every key of the call that is in no table.
C19_EveryUnknownKeyNamed ==
    /\ ~tool_result.raised
    /\ tool_call.tool \in {"check_supplier_compliance", "analyze_financial_risk"}
          /\ tool_call.supplier_id \notin {"SUP001", "SUP002"} =>
             tool_call.supplier_id \in Range(tool_result.text)
    /\ tool_call.tool = "assess_disruption_risk" =>
          \A i \in DOMAIN UnknownKeys(tool_call) :
             UnknownKeys(tool_call)[i][2] \in Range(tool_result.text)

\* C19: no tool call raises; a supplier id that is in neither table gets the
\* compliance tool's and the financial tool's not-found text with that id in
\* it, SUP999 the exact text "Supplier SUP999 not found in compliance
\* database."; an assess_disruption_risk call with an unknown region, material
\* or supplier gets the not-found text naming the first unknown key in that
\* order.
C19_UnknownKeyNotFoundText ==
    /\ ~tool_result.raised
    /\ tool_call.tool = "check_supplier_compliance"
          /\ tool_call.supplier_id \notin {"SUP001", "SUP002"} =>
             tool_result.text =
                 <<"Supplier ", tool_call.supplier_id, " not found in compliance database.">>
    /\ tool_call.tool = "check_supplier_compliance" /\ tool_call.supplier_id = "SUP999" =>
             tool_result.text = <<"Supplier ", "SUP999", " not found in compliance database.">>
    /\ tool_call.tool = "analyze_financial_risk"
          /\ tool_call.supplier_id \notin {"SUP001", "SUP002"} =>
             tool_result.text =
                 <<"Financial data for supplier ", tool_call.supplier_id, " not available.">>
    /\ tool_call.tool = "assess_disruption_risk" /\ UnknownKeys(tool_call) # <<>> =>
             LET first == Head(UnknownKeys(tool_call))
             IN  tool_result.text =
                     <<"Error: ", first[1], " '", first[2], "' not found in risk database.">>

C19_Witness ==
    /\ tool_call.tool = "assess_disruption_risk"
    /\ tool_call.region = "Southeast Asia"
    /\ tool_call.material = "Unobtainium"
    /\ tool_call.supplier_id = "SUP999"
    /\ "Unobtainium" \in Range(tool_result.text)

ContentOfId(msgs, id) == msgs[CHOOSE i \in DOMAIN msgs : msgs[i].id = id].content

\* C20: in a both_agents run the two analyses synthesize_followup puts into
\* its prompt are the content of the supply-chain specialist's final message
\* and the content of the financial specialist's final message.
C20_SynthesisPicksFinalResponses ==
    Running("synthesize_followup") /\ state.next_agent = "both_agents" =>
        /\ SynthesisInputs(state).supply_chain_result =
              ContentOfId(state.messages, final_id["supply_chain_agent"])
        /\ SynthesisInputs(state).financial_result =
              ContentOfId(state.messages, final_id["financial_agent"])

\* The content of the context message the financial sub-graph was given.
InjectedContext ==
    sub.state.messages[CHOOSE i \in DOMAIN sub.state.messages :
                          sub.state.messages[i].type = "system"].content

\* C21: in a both_agents run the context message handed to the financial
\* specialist is built from the supply-chain specialist's final response, and
\* from no other message.
C21_ContextIsSupplyChainOutput ==
    FinancialRunning /\ state.next_agent = "both_agents" /\ ContextInjected =>
        InjectedContext =
            ContextText(ContentOfId(state.messages, final_id["supply_chain_agent"]))

\* C22: when synthesize_followup has returned, on a route to one specialist
\* it has called no LLM and returned an empty dict, and merging it leaves the
\* state as it was; on both_agents it has called the LLM once and returned one
\* AI message and nothing else, and merging it appends that message.
C22_SynthesisNoOpUnlessCollaborative ==
    [][pc = "running" /\ tasks["synthesize_followup"] = "finished" =>
          IF state.next_agent # "both_agents"
          THEN /\ llm_calls["synthesize_followup"] = 0
               /\ Wrote("synthesize_followup") = NoUpdate
               /\ state' = state
          ELSE /\ llm_calls["synthesize_followup"] = 1
               /\ Len(Wrote("synthesize_followup").messages) = 1
               /\ Wrote("synthesize_followup").messages[1].type = "ai"
               /\ \A k \in ScalarKeys : Wrote("synthesize_followup")[k] = AbsentOf(k)
               /\ state' = [state EXCEPT !.messages =
                               Append(@, Wrote("synthesize_followup").messages[1])]]_allvars

C22_Witness ==
    /\ pc = "running"
    /\ tasks["synthesize_followup"] = "finished"
    /\ state.next_agent = "financial_agent"
    /\ Wrote("synthesize_followup") = NoUpdate
    /\ Len(state.messages) >= 2

-----------------------------------------------------------------------------
(* synthesize_followup and the two translations called on states of their
   own.  The synthesis is called on every short list as well; the
   translations on the lists a run holds when it reaches them, which end in a
   specialist's or the synthesis' final answer, and on the empty list, with
   english_response unset, empty or set. *)

ShortLists == {<<>>} \cup {<<HumanMessage(q)>> : q \in Queries}

RunLists ==
    {<<HumanMessage(q), AIMessage(a, 0)>> :
        q \in Queries, a \in FinalAnswers("supply_chain_agent")}
    \cup {<<HumanMessage(q), AIMessage(ToolCallContent, 1), ToolMessage(ToolResult),
            AIMessage(a, 0)>> : q \in Queries, a \in FinalAnswers("financial_agent")}
    \cup {<<HumanMessage(q), AIMessage(a, 0), AIMessage(b, 0)>> :
            q \in Queries, a \in FinalAnswers("supply_chain_agent"), b \in SynthesisAnswers}

EnglishResponses == {<<Absent>>, <<>>, <<"english">>}

CallState(msgs, next_agent, english_response) ==
    [EmptyState EXCEPT !.messages = AssignIds(msgs, 1),
                       !.next_agent = next_agent,
                       !.english_response = english_response]

NotUnit == <<vars, tool_call, tool_result, rag, adapters, listed, queries, orchestrators, rewoo, conversion>>

CallSynthesizeFollowup ==
    /\ \E msgs \in ShortLists \cup RunLists, next_agent \in ValidAgents,
          outcome \in TextOutcomes(SynthesisAnswers) :
          LET st == CallState(msgs, next_agent, <<Absent>>)
          IN  unit' = [node |-> "synthesize_followup", st |-> st, ok |-> outcome.ok,
                       result |-> synthesize_followup(st, outcome)]
    /\ UNCHANGED NotUnit

CallSpanishTranslation ==
    /\ \E msgs \in {<<>>} \cup RunLists, next_agent \in ValidAgents,
          english_response \in EnglishResponses, ok \in BOOLEAN :
          LET st == CallState(msgs, next_agent, english_response)
          IN  unit' = [node |-> "spanish_translation", st |-> st, ok |-> ok,
                       result |-> spanish_translation(st, ok)]
    /\ UNCHANGED NotUnit

CallHindiTranslation ==
    /\ \E msgs \in {<<>>} \cup RunLists, next_agent \in ValidAgents,
          english_response \in EnglishResponses, ok \in BOOLEAN :
          LET st == CallState(msgs, next_agent, english_response)
          IN  unit' = [node |-> "hindi_translation", st |-> st, ok |-> ok,
                       result |-> hindi_translation(st, ok)]
    /\ UNCHANGED NotUnit

NextNodes == CallSynthesizeFollowup \/ CallSpanishTranslation \/ CallHindiTranslation

SpecNodes == Init /\ [][NextNodes]_allvars

\* The messages the synthesis counts as specialist results.
Qualifying(msgs) ==
    SelectSeq(msgs, LAMBDA m : HasAttr(m, "content") /\ HasAttr(m, "response_metadata"))

LatestAI(msgs) ==
    LET ai == {i \in DOMAIN msgs : msgs[i].type = "ai"}
    IN  IF ai = {} THEN <<>> ELSE msgs[MaxOf(ai)].content

TranslationSource(st) ==
    IF st.english_response \notin {<<Absent>>, <<>>} THEN st.english_response
    ELSE LatestAI(st.messages)

EveryRunNodes == {"intent_classifier", "synthesize_followup", "spanish_translation",
                  "hindi_translation", "multilingual_combination"}

\* C25: the orchestrator graph is one pass: no node is started twice in a
\* run, a run that returned ran the classifier, the synthesis, both
\* translations and the combination once each, and a run ends without
\* reaching END only when one of its nodes raised.
C25_SinglePassReachesEnd ==
    /\ \A n \in Nodes : started[n] <= 1
    /\ pc = "returned" => \A n \in EveryRunNodes : started[n] = 1 /\ finished[n] = 1
    /\ pc = "raised" => raised_by \in Nodes

LastOf(msgs) == msgs[Len(msgs)]

\* C26: in a specialist sub-graph every chatbot response with tool calls is
\* followed by the tools node and every tools step by the chatbot; END is
\* entered only from a chatbot step whose response carries no tool call, so
\* the last message the finished invocation hands back is an AI response
\* without tool calls.
C26_SubgraphLoop ==
    [][pc = "running" /\ sub.node \in Specialists /\ sub' # sub =>
          /\ sub.at = "chatbot" =>
                /\ sub'.node = sub.node
                /\ Len(sub'.state.messages) = Len(sub.state.messages) + 1
                /\ LastOf(sub'.state.messages).type = "ai"
                /\ sub'.at = IF LastOf(sub'.state.messages).tool_calls > 0
                             THEN "tools" ELSE "end"
          /\ sub.at = "tools" =>
                /\ sub'.node = sub.node
                /\ LastOf(sub'.state.messages).type = "tool"
                /\ sub'.at = "chatbot"
          /\ sub.at = "end" =>
                /\ sub' = NoSub
                /\ tasks'[sub.node] = "finished"
                /\ LastOf(writes'[sub.node].messages).type = "ai"
                /\ LastOf(writes'[sub.node].messages).tool_calls = 0]_allvars

C26_Witness ==
    /\ pc = "running"
    /\ sub.node = "supply_chain_agent"
    /\ sub.at = "end"
    /\ sub.rounds = 1
    /\ LastOf(sub.state.messages).tool_calls = 0
    /\ \E i \in DOMAIN sub.state.messages : sub.state.messages[i].type = "tool"

\* The run under a scheduler that keeps executing the steps of a sub-graph
\* that has been invoked: an enabled chatbot, tools or END step is taken.
SpecFair ==
    /\ Spec
    /\ \A n \in Specialists :
          /\ WF_allvars(Chatbot(n))
          /\ WF_allvars(Tools(n))
          /\ WF_allvars(SpecialistReturns(n))

\* The LLM of specialist n has answered without tool calls in the running
\* invocation: the chatbot step has run and the last message is its answer.
AnsweredWithoutToolCalls(n) ==
    /\ pc = "running"
    /\ sub.node = n
    /\ sub.at # "chatbot"
    /\ sub.state.messages # <<>>
    /\ LastOf(sub.state.messages).type = "ai"
    /\ LastOf(sub.state.messages).tool_calls = 0

\* C27: under fair scheduling, once the LLM of a specialist invocation has
\* answered without tool calls the invocation terminates and hands that
\* answer back; and an invocation that has not raised leaves the
\* chatbot/tools loop only after such an answer.
C27_TerminatesAfterFinalAnswer ==
    /\ \A n \in Specialists :
          AnsweredWithoutToolCalls(n) ~> (tasks[n] = "finished" /\ final_id[n] # 0)
    /\ [][\A n \in Specialists :
            pc = "running" /\ sub.node = n /\ sub'.node # n =>
                AnsweredWithoutToolCalls(n)]_allvars

C27_Witness ==
    /\ pc = "running"
    /\ tasks["financial_agent"] = "finished"
    /\ final_id["financial_agent"] # 0
    /\ \E i \in DOMAIN writes["financial_agent"].messages :
          writes["financial_agent"].messages[i].type = "tool"
    /\ LastOf(writes["financial_agent"].messages).tool_calls = 0

\* C28: while a graph-backed agent is not reset, every invocation starts from
\* the whole checkpointed history of its thread and extends it at the end,
\* and get_message_history is that history with its human and AI messages in
\* the order they were written and every tool message left out.
C28_HistoryAccumulates ==
    /\ [](\A a \in Adapters : Ag(a).built =>
            /\ \A i \in DOMAIN get_message_history(a) :
                  get_message_history(a)[i].type \in {"human", "ai"}
            /\ Len(get_message_history(a)) =
                  Cardinality({i \in DOMAIN History(a) : History(a)[i].type # "tool"}))
    /\ [][\A a \in Adapters :
            Ag(a).built /\ Ag(a)' .thread_id = Ag(a).thread_id /\ History(a)' # History(a) =>
                LET m == LastOf(History(a)')
                IN  /\ History(a)' = Append(History(a), m)
                    /\ get_message_history(a)' =
                          IF m.type = "tool" THEN get_message_history(a)
                          ELSE Append(get_message_history(a), m)]_allvars

C28_Witness ==
    \E a \in Adapters :
        /\ Ag(a).built
        /\ Ag(a).at = "idle"
        /\ Ag(a).invokes = 2
        /\ Len(History(a)) = 6
        /\ History(a)[3].type = "tool"
        /\ Len(get_message_history(a)) = 5
        /\ Cardinality({i \in DOMAIN get_message_history(a) :
                            get_message_history(a)[i].type = "human"}) = 2
        /\ LastOf(get_message_history(a)).type = "ai"

-----------------------------------------------------------------------------
(* The list-backed agents: invocations and resets in any order. *)

NotListed == <<vars, tool_call, tool_result, rag, adapters, unit, queries, orchestrators, rewoo, conversion>>

InvokePlanner ==
    /\ listed["planner"].invokes < MaxInvokes
    /\ \E ok \in BOOLEAN :
          listed' = [listed EXCEPT !["planner"] = PlannerInvoke(@, ok)]
    /\ UNCHANGED NotListed

InvokeTranslation ==
    /\ listed["translation"].invokes < MaxInvokes
    /\ \E ok \in BOOLEAN :
          listed' = [listed EXCEPT !["translation"] = TranslationInvoke(@, ok)]
    /\ UNCHANGED NotListed

InvokeSynthesis ==
    /\ listed["synthesis"].invokes < MaxInvokes
    /\ \E n \in {2, 3}, ok \in BOOLEAN :
          listed' = [listed EXCEPT !["synthesis"] = SynthesisInvoke(@, n, ok)]
    /\ UNCHANGED NotListed

\* new_conversation: reset() of the agent, which may be invoked again.
ResetListed(g) ==
    /\ listed[g].resets < MaxResets
    /\ listed' = [listed EXCEPT ![g] = [ListReset(g, @) EXCEPT !.invokes = 0]]
    /\ UNCHANGED NotListed

NextListed ==
    \/ InvokePlanner
    \/ InvokeTranslation
    \/ InvokeSynthesis
    \/ \E g \in ListAgents : ResetListed(g)

SpecListed == Init /\ [][NextListed]_allvars

\* C29: after reset() a list-backed agent holds no message from before the
\* reset: every message it keeps was appended since its latest reset.
C29_ResetClearsState ==
    \A g \in ListAgents : \A i \in DOMAIN listed[g].messages :
        listed[g].messages[i].resets = listed[g].resets

-----------------------------------------------------------------------------
\* C30: every process_query call starts its run from a state that holds the
\* new human message and nothing else, whatever the call before it left:
\* no earlier message, next_agent or response field, and no pending write or
\* sub-graph state.
C30_FreshStatePerQuery ==
    [][pc # "running" /\ pc' = "running" =>
          /\ \E q \in Queries :
                state' = [EmptyState EXCEPT !.messages =
                             <<[HumanMessage(q) EXCEPT !.id = 1]>>]
          /\ \A n \in Nodes : writes'[n] = NoUpdate
          /\ sub' = NoSub]_allvars

C30_Witness ==
    /\ queries = <<"idle", "returned">>
    /\ pc = "running"
    /\ tasks["intent_classifier"] = "pending"
    /\ Len(state.messages) = 1
    /\ state.next_agent = Absent

-----------------------------------------------------------------------------
\* C31: when the financial wrapper builds the specialist's input, the message
\* list of the state it was handed stays as it was; the context message is
\* in the input list alone, which is the handed list with that one message
\* after it.
C31_ContextAppendedToCopy ==
    [][pc = "running" /\ tasks["financial_agent"] = "pending"
          /\ tasks'["financial_agent"] = "running" =>
          /\ state'.messages = state.messages
          /\ IsPrefix(state.messages, sub'.state.messages)
          /\ ContextInjected' =>
                /\ Len(sub'.state.messages) = Len(state.messages) + 1
                /\ LastOf(sub'.state.messages).type = "system"]_allvars

C31_Witness ==
    /\ pc = "running"
    /\ tasks["financial_agent"] = "running"
    /\ FinancialRunning
    /\ sub.at = "chatbot"
    /\ sub.rounds = 0
    /\ LastOf(sub.state.messages).type = "system"
    /\ Len(sub.state.messages) = Len(state.messages) + 1
    /\ \A i \in DOMAIN state.messages : state.messages[i].type # "system"

\* C32: once the financial step has returned and its result is merged, the
\* workflow's message list, which the synthesis, the translations and the
\* combination read, holds no system message.
C32_ContextNotInSharedList ==
    pc \in {"running", "returned"} /\ finished["financial_agent"] = 1
    /\ tasks["financial_agent"] = "none" =>
        \A i \in DOMAIN state.messages : state.messages[i].type # "system"

\* The final English answer of a completed run: the synthesis message, which
\* is the one before the combined document, when the run was routed to both
\* specialists, else the final response of the one specialist that ran.
FinalEnglish ==
    IF state.next_agent = "both_agents"
    THEN state.messages[Len(state.messages) - 1].content
    ELSE ContentOfId(state.messages, final_id[state.next_agent])

\* C33: in every completed run the text under the English header of the
\* combined document is the run's final English answer, and both translations
\* were made from exactly that text (both fields hold the sentinel when it
\* is empty).
C33_SameEnglishText ==
    pc = "returned" =>
        LET d == LastOf(state.messages).content
            english == Section(d, CHOOSE i \in Places(d, EnglishHeader) : TRUE)
        IN  /\ english = FinalEnglish
            /\ state.spanish_response =
                  IF english = <<>> THEN Sentinel ELSE Translate("es", english)
            /\ state.hindi_response =
                  IF english = <<>> THEN Sentinel ELSE Translate("hi", english)

C33_Witness ==
    /\ pc = "returned"
    /\ state.next_agent = "both_agents"
    /\ FinalEnglish = <<"synthesis">>
    /\ state.spanish_response = Translate("es", <<"synthesis">>)
    /\ state.hindi_response = Translate("hi", <<"synthesis">>)
    /\ Contains(result, <<EnglishHeader, "synthesis", Divider>>)

-----------------------------------------------------------------------------
(* Several orchestrators in one process: constructions and the sub-graph
   invocations of their queries, in any order. *)

NotOrchestrators == <<vars, tool_call, tool_result, rag, adapters, unit, listed, queries, rewoo, conversion>>

\* ModularMultiAgentOrchestrator.__init__(callbacks).
ConstructOrchestrator(o, callbacks) ==
    /\ orchestrators.given[o] = Absent
    /\ orchestrators' = [orchestrators EXCEPT
                            !.subgraph_callbacks = set_subgraph_callbacks(callbacks),
                            !.given[o] = callbacks]
    /\ UNCHANGED NotOrchestrators

\* A query of orchestrator o reaches the wrapper of specialist w, which
\* builds its config and invokes the sub-graph with it.
InvokeSubgraph(o, w) ==
    /\ orchestrators.given[o] # Absent
    /\ orchestrators' = [orchestrators EXCEPT
                            !.used[o][w] = WrapperCallbacks(orchestrators.subgraph_callbacks)]
    /\ UNCHANGED NotOrchestrators

NextOrchestrators ==
    \/ \E o \in Orchestrators, callbacks \in CallbackArgs : ConstructOrchestrator(o, callbacks)
    \/ \E o \in Orchestrators, w \in Specialists : InvokeSubgraph(o, w)

SpecOrchestrators == Init /\ [][NextOrchestrators]_allvars

\* C34: every sub-graph invocation of an orchestrator's query is made with
\* the callbacks that orchestrator's constructor was given (with none when
\* it was given None), whatever other orchestrator was constructed since.
C34_OwnCallbacks ==
    \A o \in Orchestrators, w \in Specialists :
        orchestrators.used[o][w] # "not invoked" =>
            orchestrators.used[o][w] = WrapperCallbacks(orchestrators.given[o])

-----------------------------------------------------------------------------
(* rag_search called from several threads at once: the tools node runs the
   tool calls of one LLM response in a thread pool, and the steps of the
   calls interleave. *)

NextRagConcurrent == \E t \in RagThreads : RagStep(t)

SpecRagConcurrent == Init /\ [][NextRagConcurrent]_allvars

\* C35: whatever the interleaving of rag_search calls, at most one
\* SupplyChainRAG object is ever created, every call searches the object the
\* global holds, and the try block of initialize runs to its end at most
\* once on it.
C35_OneInstanceInitializedOnce ==
    /\ Len(rag.objects) <= 1
    /\ \A t \in RagThreads : Th(t).obj \in {0, rag.instance}
    /\ \A i \in DOMAIN rag.objects : rag.objects[i].init_done <= 1

-----------------------------------------------------------------------------
(* One run of the ReWOO planner graph.  The tools themselves answer; the
   tool node stops being scheduled after MaxToolRuns executions. *)

NotRewoo == <<vars, tool_call, tool_result, rag, adapters, unit, listed, queries, orchestrators, conversion>>

\* get_plan: the planner's answer is parsed into the steps.
GetPlan ==
    /\ rewoo.at = "start"
    /\ \E steps \in Plans : rewoo' = [rewoo EXCEPT !.at = "tool", !.steps = steps]
    /\ UNCHANGED NotRewoo

ToolExecution ==
    /\ rewoo.at = "tool"
    /\ Len(rewoo.executed) < MaxToolRuns
    /\ rewoo' = tool_execution(rewoo)
    /\ UNCHANGED NotRewoo

Route ==
    /\ rewoo.at = "route"
    /\ rewoo' = [rewoo EXCEPT !.at = _route(rewoo)]
    /\ UNCHANGED NotRewoo

\* solve: one LLM call, then END.
Solve ==
    /\ rewoo.at = "solve"
    /\ rewoo' = [rewoo EXCEPT !.at = "end", !.solved = @ + 1]
    /\ UNCHANGED NotRewoo

NextRewoo == GetPlan \/ ToolExecution \/ Route \/ Solve

SpecRewoo == Init /\ [][NextRewoo]_allvars

\* C36: for every plan the tool node executes the steps once each in plan
\* order (the k-th execution is of step k), no step of the graph raises, and
\* a run that has ended executed every step and ran solve once.
C36_EachStepOnceInOrder ==
    /\ rewoo.at # "raised"
    /\ \A k \in DOMAIN rewoo.executed : rewoo.executed[k] = k
    /\ Len(rewoo.executed) <= Len(rewoo.steps)
    /\ rewoo.at = "end" => Len(rewoo.executed) = Len(rewoo.steps) /\ rewoo.solved = 1

-----------------------------------------------------------------------------
(* A framework-agnostic message converted to LangChain and back. *)

NotConversion ==
    <<vars, tool_call, tool_result, rag, adapters, unit, listed, queries, orchestrators, rewoo>>

ToLangchainMessage ==
    /\ \E m \in BaseMessages, accepted \in BOOLEAN :
          LET r == to_langchain_message(m, accepted)
          IN  conversion' = [ConversionInit EXCEPT !.at = "langchain", !.m = m,
                                                   !.langchain = r.message,
                                                   !.raised = r.raised]
    /\ UNCHANGED NotConversion

ToBaseMessage ==
    /\ conversion.at = "langchain"
    /\ ~conversion.raised
    /\ LET r == to_base_message(conversion.langchain)
       IN  conversion' = [conversion EXCEPT !.at = "base", !.back = r.message,
                                            !.raised = r.raised]
    /\ UNCHANGED NotConversion

NextConversion == ToLangchainMessage \/ ToBaseMessage

SpecConversion == Init /\ [][NextConversion]_allvars

\* C37: for a message of any of the four types neither conversion raises,
\* and converting to LangChain and back gives a message of the same type and
\* content.
C37_RoundTrip ==
    /\ ~conversion.raised
    /\ conversion.at = "base" => conversion.back = conversion.m

====
